---- MODULE Spec2Model ----
(***************************************************************************)
(* Model of ralph (hyperlab-be/ralph): the run loop engine (cmd/run.go,    *)
(* runAgent and runAgentIteration), the run registry (internal/config),   *)
(* the process supervisor (internal/loop), the stop and new commands and  *)
(* the task backlog (internal/prd).                                       *)
(*                                                                         *)
(* Every operating-system process is a sequence of atomic steps; a step   *)
(* reads or writes at most one shared object (the registry file, the      *)
(* backlog file, a pipe, the cancellation context, the process table).    *)
(***************************************************************************)
EXTENDS Integers, Sequences, FiniteSets, TLC

\* ------------------------------------------------------------------ bounds
\* largest value of the --max-iterations flag that is explored
MaxIterationsBound == 2
\* largest number of user stories in a backlog file
MaxStories == 2
\* how many times one engine slot is launched
MaxRuns == 2
\* how many registry commands (new, stop, Start, Stop) are issued
MaxCmds == 2
\* chunks the agent child writes to each of its output streams
MaxChunks == 1
\* SetLoop and RemoveLoop calls one registry client makes
MaxOps == 3
\* largest backlog a caller of package prd builds with AddStory
MaxItems == 3

\* engine process slots that may execute "ralph run"
Procs == {1, 2}

\* session names of the registry; engines are started in the project
\* directory whose base name is RunName
RunName == "s1"
OtherName == "s2"
Names == {RunName, OtherName}

\* ------------------------------------------------------- internal/prd/prd.go
\* content of .ralph/prd.json: no file, a file that does not parse, or the
\* userStories of a JSON document
Absent ==
    [kind |-> "absent", name |-> "", description |-> "", stories |-> << >>]
Malformed ==
    [kind |-> "malformed", name |-> "", description |-> "", stories |-> << >>]

\* a JSON document with the keys name, description and userStories
Document(name, description, stories) ==
    [kind |-> "json", name |-> name, description |-> description,
     stories |-> stories]

FileOf(stories) == Document("", "", stories)

NoPRD == [nil |-> TRUE, Name |-> "", Description |-> "", UserStories |-> << >>]

\* Story: id, title, description, acceptanceCriteria, passes
Item(id, title, description, criteria, passes) ==
    [id |-> id, title |-> title, description |-> description,
     acceptanceCriteria |-> criteria, passes |-> passes]

Story(i, b) == Item(ToString(i), "", "", << >>, b)

PRD(name, description, stories) ==
    [nil |-> FALSE, Name |-> name, Description |-> description,
     UserStories |-> stories]

PRDOf(stories) == PRD("", "", stories)

\* all backlogs of n stories with ids 1..n
RECURSIVE StorySeqs(_)
StorySeqs(n) ==
    IF n = 0 THEN {<< >>}
    ELSE {Append(s, Story(n, b)) : s \in StorySeqs(n - 1), b \in BOOLEAN}

Backlogs == UNION {StorySeqs(n) : n \in 0..MaxStories}

\* Load: (nil, nil) when the file does not exist, (nil, err) when it cannot
\* be parsed, the document otherwise
LoadErr(file) == file.kind = "malformed"

\* a missing file is loaded as an empty document
LoadMissingAsEmpty(file) ==
    IF file.kind = "malformed" THEN NoPRD ELSE PRDOf(file.stories)

\* json.Unmarshal of one element of userStories
UnmarshalStory(o) ==
    Item(o.id, o.title, o.description, o.acceptanceCriteria, o.passes)

\* passes is left out of the document
MarshalStoryOmitsPasses(st) ==
    [id |-> st.id, title |-> st.title, description |-> st.description,
     acceptanceCriteria |-> st.acceptanceCriteria, passes |-> FALSE]

\* json.MarshalIndent of one Story
MarshalStory(st) ==
    [id |-> st.id, title |-> st.title, description |-> st.description,
     acceptanceCriteria |-> st.acceptanceCriteria, passes |-> st.passes]

Load(file) ==
    IF file.kind = "json"
    THEN PRD(file.name, file.description,
             [i \in 1..Len(file.stories) |-> UnmarshalStory(file.stories[i])])
    ELSE NoPRD

\* the document Save writes
Save(p) ==
    Document(p.Name, p.Description,
             [i \in 1..Len(p.UserStories) |-> MarshalStory(p.UserStories[i])])

\* the last unfinished story is chosen
FirstIncompleteFromEnd(stories, i) ==
    IF \A k \in i..Len(stories) : stories[k].passes THEN 0
    ELSE CHOOSE k \in i..Len(stories) :
             /\ ~stories[k].passes
             /\ \A j \in (k + 1)..Len(stories) : stories[j].passes

RECURSIVE FirstIncompleteFrom(_, _)
FirstIncompleteFrom(stories, i) ==
    IF i > Len(stories) THEN 0
    ELSE IF ~stories[i].passes THEN i
    ELSE FirstIncompleteFrom(stories, i + 1)

\* the search starts at the second story
GetCurrentStorySkipsFirst(p) == FirstIncompleteFrom(p.UserStories, 2)

\* position of the first story with passes = false, 0 for nil
GetCurrentStory(p) == FirstIncompleteFrom(p.UserStories, 1)

RECURSIVE CountDone(_, _)
CountDone(stories, i) ==
    IF i > Len(stories) THEN 0
    ELSE (IF stories[i].passes THEN 1 ELSE 0) + CountDone(stories, i + 1)

\* the two counts are formatted in the wrong order
ProgressSwapped(p) == <<Len(p.UserStories), CountDone(p.UserStories, 1)>>

\* Progress: "done/total" as the pair it is formatted from
Progress(p) == <<CountDone(p.UserStories, 1), Len(p.UserStories)>>

\* the quotient is rounded up
ProgressPercentRoundsUp(p) ==
    IF Len(p.UserStories) = 0 THEN 0
    ELSE (CountDone(p.UserStories, 1) * 100 + Len(p.UserStories) - 1)
             \div Len(p.UserStories)

\* ProgressPercent: integer division of done * 100 by the number of stories
ProgressPercent(p) ==
    IF Len(p.UserStories) = 0 THEN 0
    ELSE (CountDone(p.UserStories, 1) * 100) \div Len(p.UserStories)

\* every appended story is numbered, a supplied id is discarded
AddStoryAlwaysNumbers(p, story) ==
    [p EXCEPT !.UserStories =
        Append(@, [story EXCEPT !.id = ToString(Len(p.UserStories) + 1)])]

\* AddStory: an empty id becomes the decimal of the new length
AddStory(p, story) ==
    [p EXCEPT !.UserStories =
        Append(@, [story EXCEPT !.id = IF @ = ""
                                       THEN ToString(Len(p.UserStories) + 1)
                                       ELSE @])]

\* an empty backlog counts as complete
IsCompleteVacuous(p) == \A i \in 1..Len(p.UserStories) : p.UserStories[i].passes

IsComplete(p) ==
    /\ \A i \in 1..Len(p.UserStories) : p.UserStories[i].passes
    /\ Len(p.UserStories) > 0

\* ------------------------------------------------ internal/config/config.go
NoLoop ==
    [nil |-> TRUE, Name |-> "", Path |-> << >>, Project |-> "", Feature |-> "",
     Branch |-> "", Status |-> "", PID |-> 0, Created |-> 0, Started |-> 0,
     Stopped |-> 0]

\* config.Loop; timestamps are clock readings, 0 is the empty string
Loop(name, path, project, feature, branch, status, pid, created, started, stopped) ==
    [nil |-> FALSE, Name |-> name, Path |-> path, Project |-> project,
     Feature |-> feature, Branch |-> branch, Status |-> status, PID |-> pid,
     Created |-> created, Started |-> started, Stopped |-> stopped]

PathOf(name) == <<"dir", name>>

EmptyRegistry == [n \in Names |-> NoLoop]

\* registry.Loops[name]
GetLoopIn(reg, name) == reg[name]

\* an entry that is there is kept
PutLoopKeepsExisting(reg, l) == IF reg[l.Name].nil THEN [reg EXCEPT ![l.Name] = l] ELSE reg

\* registry.Loops[loop.Name] = loop
PutLoopIn(reg, l) == [reg EXCEPT ![l.Name] = l]

\* the map is emptied
DeleteLoopEmptiesRegistry(reg, name) == [n \in Names |-> NoLoop]

\* delete(registry.Loops, name)
DeleteLoopIn(reg, name) == [reg EXCEPT ![name] = NoLoop]


\* the omitempty keys of a Loop that json.MarshalIndent writes
OptionalKeys(l) ==
    {k \in {"pid", "created", "started", "stopped"} :
        \/ k = "pid" /\ l.PID # 0
        \/ k = "created" /\ l.Created # 0
        \/ k = "started" /\ l.Started # 0
        \/ k = "stopped" /\ l.Stopped # 0}

\* the JSON object of one Loop: six keys always, four only when not zero
MarshalLoop(l) ==
    [name |-> l.Name, path |-> l.Path, project |-> l.Project,
     feature |-> l.Feature, branch |-> l.Branch, status |-> l.Status,
     opt |-> [k \in OptionalKeys(l) |->
                 IF k = "pid" THEN l.PID
                 ELSE IF k = "created" THEN l.Created
                 ELSE IF k = "started" THEN l.Started
                 ELSE l.Stopped]]

\* json.Unmarshal of one Loop: a key that is not there leaves the zero value
UnmarshalLoop(o) ==
    LET Opt(k) == IF k \in DOMAIN o.opt THEN o.opt[k] ELSE 0
    IN  Loop(o.name, o.path, o.project, o.feature, o.branch, o.status,
             Opt("pid"), Opt("created"), Opt("started"), Opt("stopped"))

\* json.MarshalIndent(registry): the object "loops" with one key per entry
MarshalRegistry(reg) ==
    [n \in {m \in Names : ~reg[m].nil} |-> MarshalLoop(reg[n])]

\* json.Unmarshal(data, registry) into the map LoadLoops made
UnmarshalRegistry(doc) ==
    [n \in Names |-> IF n \in DOMAIN doc THEN UnmarshalLoop(doc[n]) ELSE NoLoop]

\* what LoadLoops reads from the file SaveLoops wrote for reg
Written(reg) == UnmarshalRegistry(MarshalRegistry(reg))

\* ------------------------------------------------------------------- state
VARIABLES
    registry,   \* loops.json: session name -> Loop or NoLoop
    dirState,   \* per name: "missing", "plain" (no ralph.toml/.ralph) or "project"
    prdFile,    \* .ralph/prd.json of the project directory RunName
    clock,      \* number of time.Now() readings taken so far
    pc,         \* per engine process: position in runAgent
    runs,       \* per engine slot: how many processes were launched in it
    g,          \* per engine process: the Go variables of runAgent
    ctxDone,    \* per engine process: the cancellation context is done
    child,      \* per engine process: the agent child of the current invoker call
    io,         \* per engine process: pipes and reader goroutines of the call
    hist,       \* per engine process: what the current run has done so far
    cmd,        \* the registry command in progress (new, stop, Start, Stop)
    mon,        \* observations of the registry writes
    lib,        \* a caller of package prd: its *PRD and what it last got back
    cli         \* per process: a caller of GetLoop, SetLoop, RemoveLoop, ListAll

vars == <<registry, dirState, prdFile, clock, pc, runs, g, ctxDone, child, io,
          hist, cmd, mon, lib, cli>>

\* os.Getpid() of the process currently in slot p
Pid(p) == p + Cardinality(Procs) * (runs[p] - 1)

\* the process of slot p exists in the process table
ProcAlive(p) == pc[p] \notin {"idle", "returned", "dead"}

\* signal.Notify has been called (part_005:107): SIGINT and SIGTERM no longer
\* terminate the process
HandlerInstalled(p) ==
    pc[p] \in {"top", "invoke", "wait", "join", "after", "pause",
               "exitLoad", "exitSave", "final", "publish"}

\* process.Signal(syscall.Signal(0)) succeeds for the pid
PidAlive(pid) == \E p \in Procs : ProcAlive(p) /\ Pid(p) = pid

SlotOfPid(pid) == CHOOSE p \in Procs : ProcAlive(p) /\ Pid(p) = pid

\* time.Now().Format(time.RFC3339)
Now == clock + 1

GoInit ==
    [maxIterations |-> 0, once |-> FALSE, dryRun |-> FALSE, loop |-> NoLoop,
     loaded |-> EmptyRegistry, p |-> NoPRD, iteration |-> 0, err |-> "nil",
     result |-> "none", story |-> 0]

NoIO ==
    [written |-> [s \in {"out", "err"} |-> 0],
     logged |-> [s \in {"out", "err"} |-> 0],
     reader |-> [s \in {"out", "err"} |-> "none"],
     closed |-> FALSE]

HistInit ==
    [entered |-> FALSE, exitWritten |-> FALSE, calls |-> 0, pubCalls |-> 0,
     pubResult |-> "none", log |-> << >>, terminal |-> "none",
     cancelledIn |-> 0, pubBranch |-> "none", published |-> {},
     pausedAfter |-> 0]

NoCmd == [op |-> "none", pc |-> "none", name |-> "", loop |-> NoLoop,
          loaded |-> EmptyRegistry]

NoResult == [op |-> "none", name |-> "", err |-> "nil"]

NoQuery == [asked |-> FALSE, complete |-> FALSE, current |-> 0, percent |-> 0,
            progress |-> <<0, 0>>]

NoItem == Item("", "", "", << >>, FALSE)

\* a registry client between calls
CliInit ==
    [pc |-> "idle", op |-> "none", name |-> "", loop |-> NoLoop,
     loaded |-> EmptyRegistry, got |-> NoLoop, listed |-> {}, log |-> << >>]

LibInit == [op |-> "none", arg |-> NoItem, p |-> NoPRD, err |-> "nil",
            saved |-> NoPRD, q |-> NoQuery]

MonInit == [runningOverRunning |-> FALSE, cmds |-> 0, last |-> NoResult]

\* os.WriteFile(path, data) of SaveLoops: the whole file is replaced; name is
\* the key the caller has set in reg ("" for a removal)
SaveLoops(reg, name) ==
    /\ registry' = Written(reg)
    /\ mon' = [mon EXCEPT !.runningOverRunning =
                  @ \/ /\ name \in Names
                       /\ ~registry[name].nil /\ registry[name].Status = "running"
                       /\ ~reg[name].nil /\ reg[name].Status = "running"]

\* a SIGINT/SIGTERM reaches the process of slot p: the signal goroutine
\* (part_005:109-113) cancels the context once the handler is installed;
\* before signal.Notify the default action terminates the process
\* hist.cancelledIn notes the iteration that was in progress (between its
\* header and the end of its bookkeeping) when the context was cancelled
IterationInProgress(p) == pc[p] \in {"invoke", "wait", "join", "after"}

SignalEffect(p) ==
    IF HandlerInstalled(p)
    THEN /\ ctxDone' = [ctxDone EXCEPT ![p] = TRUE]
         /\ pc' = pc
         /\ hist' = [hist EXCEPT ![p].cancelledIn =
                        IF ~ctxDone[p] /\ IterationInProgress(p)
                        THEN g[p].iteration ELSE @]
    ELSE /\ pc' = [pc EXCEPT ![p] = "dead"]
         /\ ctxDone' = ctxDone
         /\ hist' = hist

\* --------------------------------------------------- cmd/run.go: runAgent
\* a process is started with "ralph run" in the directory RunName
\* (part_005:49-55); the flags are its inputs
LaunchEffect(p, mi, o, d) ==
    /\ pc[p] \in {"idle", "returned", "dead"}
    /\ runs[p] < MaxRuns
    /\ dirState[RunName] # "missing"
    /\ runs' = [runs EXCEPT ![p] = @ + 1]
    /\ g' = [g EXCEPT ![p] = [GoInit EXCEPT !.maxIterations = mi, !.once = o,
                                            !.dryRun = d]]
    /\ pc' = [pc EXCEPT ![p] = "findRoot"]
    /\ ctxDone' = [ctxDone EXCEPT ![p] = FALSE]
    /\ child' = [child EXCEPT ![p] = "none"]
    /\ io' = [io EXCEPT ![p] = NoIO]
    /\ hist' = [hist EXCEPT ![p] = HistInit]

Launch(p, mi, o, d) ==
    /\ LaunchEffect(p, mi, o, d)
    /\ UNCHANGED <<registry, dirState, prdFile, lib, cli, clock, cmd, mon>>

Return(p, res) ==
    /\ pc' = [pc EXCEPT ![p] = "returned"]
    /\ g' = [g EXCEPT ![p].result = res]

\* part_005:50-66: FindProjectRoot and prd.Load
FindRootAndLoad(p) ==
    /\ pc[p] = "findRoot"
    /\ IF dirState[RunName] # "project"
       THEN Return(p, "not in a ralph project")
       ELSE IF LoadErr(prdFile)
       THEN Return(p, "failed to load PRD")
       ELSE IF Load(prdFile).nil
       THEN Return(p, "no PRD found")
       ELSE /\ pc' = [pc EXCEPT ![p] = "guard"]
            /\ g' = [g EXCEPT ![p].p = Load(prdFile)]
    /\ UNCHANGED <<registry, dirState, prdFile, lib, cli, clock, runs, ctxDone, child,
                   io, hist, cmd, mon>>

\* the guard compares with a status no writer ever stores
AlreadyRunningWrongStatus(l) == ~l.nil /\ l.Status = "started"

\* part_005:70: the entry guard on the record read from the registry
AlreadyRunning(l) == ~l.nil /\ l.Status = "running"

\* --once is ignored
EffectiveMaxIgnoresOnce(mi, o) == mi

\* part_005:74-77: --once overrides max-iterations
EffectiveMax(mi, o) == IF o THEN 1 ELSE mi

\* part_005:68-89: GetLoop, the guard, --once and the dry-run return
Guard(p) ==
    /\ pc[p] = "guard"
    /\ LET l == GetLoopIn(registry, RunName)
           mi == EffectiveMax(g[p].maxIterations, g[p].once)
       IN IF AlreadyRunning(l)
          THEN /\ pc' = [pc EXCEPT ![p] = "returned"]
               /\ g' = [g EXCEPT ![p].loop = l,
                                 ![p].result = "loop is already running"]
          ELSE IF g[p].dryRun
          THEN /\ pc' = [pc EXCEPT ![p] = "returned"]
               /\ g' = [g EXCEPT ![p].loop = l, ![p].maxIterations = mi,
                                 ![p].story = GetCurrentStory(g[p].p),
                                 ![p].result = "nil"]
          ELSE /\ pc' = [pc EXCEPT ![p] = "startLoad"]
               /\ g' = [g EXCEPT ![p].loop = l, ![p].maxIterations = mi]
    /\ UNCHANGED <<registry, dirState, prdFile, lib, cli, clock, runs, ctxDone, child,
                   io, hist, cmd, mon>>

\* the run always builds a record of its own
StartRecordFresh(l, pid, now) ==
    [Loop(RunName, PathOf(RunName), "", "", "", "running", 0, 0, 0, 0)
        EXCEPT !.Started = now, !.PID = pid]

\* part_005:91-101: the record the run writes at its start
StartRecord(l, pid, now) ==
    LET base == IF l.nil
                THEN Loop(RunName, PathOf(RunName), "", "", "", "running", 0, 0, 0, 0)
                ELSE l
    IN [base EXCEPT !.Status = "running", !.Started = now, !.PID = pid]

\* part_005:91-102 and config.go:168: the record is built and SetLoop loads
\* the registry file
StartLoad(p) ==
    /\ pc[p] = "startLoad"
    /\ g' = [g EXCEPT ![p].loop = StartRecord(g[p].loop, Pid(p), Now),
                      ![p].loaded = registry]
    /\ clock' = clock + 1
    /\ pc' = [pc EXCEPT ![p] = "startSave"]
    /\ UNCHANGED <<registry, dirState, prdFile, lib, cli, runs, ctxDone, child, io, hist,
                   cmd, mon>>

\* config.go:172-173: SetLoop stores the record and saves the file
StartSave(p) ==
    /\ pc[p] = "startSave"
    /\ SaveLoops(PutLoopIn(g[p].loaded, g[p].loop), RunName)
    /\ g' = [g EXCEPT ![p].loaded = EmptyRegistry]
    /\ hist' = [hist EXCEPT ![p].entered = TRUE]
    /\ pc' = [pc EXCEPT ![p] = "notify"]
    /\ UNCHANGED <<dirState, prdFile, lib, cli, clock, runs, ctxDone, child, io, cmd>>

\* part_005:104-130: context, signal.Notify, log files; iteration := 1
Notify(p) ==
    /\ pc[p] = "notify"
    /\ g' = [g EXCEPT ![p].iteration = 1]
    /\ pc' = [pc EXCEPT ![p] = "top"]
    /\ UNCHANGED <<registry, dirState, prdFile, lib, cli, clock, runs, ctxDone, child,
                   io, hist, cmd, mon>>

\* part_005:134-138: "break" inside select leaves the select statement only,
\* never the enclosing for loop; the value says whether the loop is left
SelectLeavesLoop(done) == FALSE

\* the top of the loop only notices a missing backlog
TopFindsCompleteOnlyMissing(p) == p.nil

\* part_005:142: the Completed exit at the top of an iteration
TopFindsComplete(p) == p.nil \/ IsComplete(p)

LeaveLoop(p, why) ==
    /\ pc' = [pc EXCEPT ![p] = "exitLoad"]
    /\ hist' = [hist EXCEPT ![p].terminal = why]

\* part_005:133-158: loop condition, select, reload, iteration header
Top(p) ==
    /\ pc[p] = "top"
    /\ IF g[p].iteration > g[p].maxIterations
       THEN LeaveLoop(p, "IterationLimitReached") /\ g' = g
       ELSE IF SelectLeavesLoop(ctxDone[p])
       THEN LeaveLoop(p, "Interrupted") /\ g' = g
       ELSE /\ g' = [g EXCEPT ![p].p = Load(prdFile)]
            /\ IF TopFindsComplete(Load(prdFile))
               THEN LeaveLoop(p, "Completed")
               ELSE /\ pc' = [pc EXCEPT ![p] = "invoke"]
                    /\ hist' = [hist EXCEPT ![p].log =
                                   Append(@, <<"started", g[p].iteration>>)]
    /\ UNCHANGED <<registry, dirState, prdFile, lib, cli, clock, runs, ctxDone, child,
                   io, cmd, mon>>

\* the child is started whatever the state of the context
StartIgnoresContext(done) == FALSE

\* part_005:391: (*Cmd).Start of a command made by exec.CommandContext
\* returns the context's error, without forking, when the context is done
StartRefuses(done) == done

\* part_005:362-396: runAgentIteration up to cmd.Start; found is the result
\* of exec.LookPath, startOK that of fork/exec
Invoke(p, found, startOK) ==
    /\ pc[p] = "invoke"
    /\ hist' = [hist EXCEPT ![p].calls = @ + 1]
    /\ IF ~found
       THEN /\ g' = [g EXCEPT ![p].err = "claude CLI not found"]
            /\ pc' = [pc EXCEPT ![p] = "after"]
            /\ UNCHANGED <<child, io>>
       ELSE IF StartRefuses(ctxDone[p])
       THEN /\ g' = [g EXCEPT ![p].err = "context canceled"]
            /\ pc' = [pc EXCEPT ![p] = "after"]
            /\ UNCHANGED <<child, io>>
       ELSE IF ~startOK
       THEN /\ g' = [g EXCEPT ![p].err = "failed to start agent"]
            /\ pc' = [pc EXCEPT ![p] = "after"]
            /\ UNCHANGED <<child, io>>
       ELSE /\ child' = [child EXCEPT ![p] = "alive"]
            /\ io' = [io EXCEPT ![p] =
                         [NoIO EXCEPT !.reader = [s \in {"out", "err"} |-> "reading"]]]
            /\ pc' = [pc EXCEPT ![p] = "wait"]
            /\ g' = g
    /\ UNCHANGED <<registry, dirState, prdFile, lib, cli, clock, runs, ctxDone, cmd, mon>>

\* the agent sets passes of story i in .ralph/prd.json (prompt, part_005:344)
AgentMarksStory(p, i) ==
    /\ child[p] = "alive"
    /\ prdFile.kind = "json"
    /\ i \in 1..Len(prdFile.stories)
    /\ ~prdFile.stories[i].passes
    /\ prdFile' = [prdFile EXCEPT !.stories[i].passes = TRUE]
    /\ UNCHANGED <<registry, dirState, lib, cli, clock, pc, runs, g, ctxDone, child, io,
                   hist, cmd, mon>>

\* the agent removes the backlog file
AgentRemovesBacklog(p) ==
    /\ child[p] = "alive"
    /\ prdFile # Absent
    /\ prdFile' = Absent
    /\ UNCHANGED <<registry, dirState, lib, cli, clock, pc, runs, g, ctxDone, child, io,
                   hist, cmd, mon>>

\* the agent writes a chunk to its stdout or stderr
ChildWrites(p, s) ==
    /\ child[p] = "alive"
    /\ io[p].written[s] < MaxChunks
    /\ io' = [io EXCEPT ![p].written[s] = @ + 1]
    /\ UNCHANGED <<registry, dirState, prdFile, lib, cli, clock, pc, runs, g, ctxDone,
                   child, hist, cmd, mon>>

\* the agent exits with status 0 (ok) or not
ChildExits(p, ok) ==
    /\ child[p] = "alive"
    /\ child' = [child EXCEPT ![p] = IF ok THEN "exit0" ELSE "exit1"]
    /\ UNCHANGED <<registry, dirState, prdFile, lib, cli, clock, pc, runs, g, ctxDone,
                   io, hist, cmd, mon>>

\* exec.CommandContext: once the context is done the child is killed; the
\* kill also succeeds on a child that has exited and is not yet reaped, and
\* Wait then reports the context error
CtxKill(p) ==
    /\ ctxDone[p]
    /\ child[p] \in {"alive", "exit0", "exit1"}
    /\ child' = [child EXCEPT ![p] = "killed"]
    /\ UNCHANGED <<registry, dirState, prdFile, lib, cli, clock, pc, runs, g, ctxDone,
                   io, hist, cmd, mon>>

\* part_005:406-436: one Read of a reader goroutine that returns data
ReaderReads(p, s) ==
    /\ io[p].reader[s] = "reading"
    /\ ~io[p].closed
    /\ io[p].logged[s] < io[p].written[s]
    /\ io' = [io EXCEPT ![p].logged[s] = @ + 1]
    /\ UNCHANGED <<registry, dirState, prdFile, lib, cli, clock, pc, runs, g, ctxDone,
                   child, hist, cmd, mon>>

\* part_005:416-418, 432-434: Read returns an error and the goroutine ends:
\* EOF once the child is gone and the pipe is empty, or "file already
\* closed" once Wait has closed the pipe (unread data is dropped)
ReaderEnds(p, s) ==
    /\ io[p].reader[s] = "reading"
    /\ \/ io[p].closed
       \/ child[p] # "alive" /\ io[p].logged[s] = io[p].written[s]
    /\ io' = [io EXCEPT ![p].reader[s] = "done"]
    /\ UNCHANGED <<registry, dirState, prdFile, lib, cli, clock, pc, runs, g, ctxDone,
                   child, hist, cmd, mon>>

\* error value of cmd.Wait for the state the child ended in
WaitErr(c) == IF c = "exit0" THEN "nil"
              ELSE IF c = "exit1" THEN "exit status 1"
              ELSE "signal: killed"

\* part_005:439: cmd.Wait returns when the child has exited; it closes the
\* read ends of the stdout and stderr pipes
Wait(p) ==
    /\ pc[p] = "wait"
    /\ child[p] \in {"exit0", "exit1", "killed"}
    /\ g' = [g EXCEPT ![p].err = WaitErr(child[p])]
    /\ child' = [child EXCEPT ![p] = "none"]
    /\ io' = [io EXCEPT ![p].closed = TRUE]
    /\ pc' = [pc EXCEPT ![p] = "join"]
    /\ UNCHANGED <<registry, dirState, prdFile, lib, cli, clock, runs, ctxDone, hist,
                   cmd, mon>>

\* part_005:441-444: the goroutines runAgentIteration waits for before it
\* returns (the done channel is closed by the stdout reader only)
JoinedReaders == {"out"}

Join(p) ==
    /\ pc[p] = "join"
    /\ \A s \in JoinedReaders : io[p].reader[s] = "done"
    /\ pc' = [pc EXCEPT ![p] = "after"]
    /\ UNCHANGED <<registry, dirState, prdFile, lib, cli, clock, runs, g, ctxDone, child,
                   io, hist, cmd, mon>>

\* every invoker error ends the loop
ErrorEndsLoopAlways(err, done) == err # "nil"

\* part_005:170-173: an invoker error ends the loop exactly when the context
\* is done
ErrorEndsLoop(err, done) == err # "nil" /\ done

\* part_005:183: the pause before the next iteration
PauseDue(iteration, mi, o) == iteration < mi /\ ~o

\* part_005:163-187: reload, error handling, completion log, pause decision
After(p) ==
    /\ pc[p] = "after"
    /\ LET q == Load(prdFile)
           progressAfter == IF q.nil THEN "unknown" ELSE Progress(q)
           it == g[p].iteration
       IN IF g[p].err # "nil"
          THEN IF ErrorEndsLoop(g[p].err, ctxDone[p])
               THEN /\ LeaveLoop(p, "Interrupted")
                    /\ g' = [g EXCEPT ![p].p = q]
               ELSE /\ hist' = [hist EXCEPT ![p].log = Append(@, <<"error", it>>)]
                    /\ g' = [g EXCEPT ![p].p = q, ![p].iteration = it + 1]
                    /\ pc' = [pc EXCEPT ![p] = "top"]
          ELSE /\ hist' = [hist EXCEPT ![p].log =
                              Append(@, <<"completed", it, progressAfter>>)]
               /\ IF PauseDue(it, g[p].maxIterations, g[p].once)
                  THEN /\ pc' = [pc EXCEPT ![p] = "pause"]
                       /\ g' = [g EXCEPT ![p].p = q]
                  ELSE /\ pc' = [pc EXCEPT ![p] = "top"]
                       /\ g' = [g EXCEPT ![p].p = q, ![p].iteration = it + 1]
    /\ UNCHANGED <<registry, dirState, prdFile, lib, cli, clock, runs, ctxDone, child,
                   io, cmd, mon>>

\* part_005:185: time.Sleep returns, the for statement increments iteration
Pause(p) ==
    /\ pc[p] = "pause"
    /\ g' = [g EXCEPT ![p].iteration = @ + 1]
    /\ hist' = [hist EXCEPT ![p].pausedAfter = g[p].iteration]
    /\ pc' = [pc EXCEPT ![p] = "top"]
    /\ UNCHANGED <<registry, dirState, prdFile, lib, cli, clock, runs, ctxDone, child,
                   io, cmd, mon>>

\* the exit record keeps the pid of the run
ExitRecordKeepsPid(l, now) == [l EXCEPT !.Status = "stopped", !.Stopped = now]

\* part_005:189-192: the record the run writes when it leaves the loop
ExitRecord(l, now) == [l EXCEPT !.Status = "stopped", !.Stopped = now, !.PID = 0]

\* part_005:189-193 and config.go:168
ExitLoad(p) ==
    /\ pc[p] = "exitLoad"
    /\ g' = [g EXCEPT ![p].loop = ExitRecord(g[p].loop, Now),
                      ![p].loaded = registry]
    /\ clock' = clock + 1
    /\ pc' = [pc EXCEPT ![p] = "exitSave"]
    /\ UNCHANGED <<registry, dirState, prdFile, lib, cli, runs, ctxDone, child, io, hist,
                   cmd, mon>>

\* config.go:172-173
ExitSave(p) ==
    /\ pc[p] = "exitSave"
    /\ SaveLoops(PutLoopIn(g[p].loaded, g[p].loop), RunName)
    /\ g' = [g EXCEPT ![p].loaded = EmptyRegistry]
    /\ hist' = [hist EXCEPT ![p].exitWritten = TRUE]
    /\ pc' = [pc EXCEPT ![p] = "final"]
    /\ UNCHANGED <<dirState, prdFile, lib, cli, clock, runs, ctxDone, child, io, cmd>>

\* the publisher runs when the backlog still has an unfinished story
PublishDueWhenIncomplete(p) == ~p.nil /\ ~IsComplete(p)

\* the publisher runs for every backlog that exists
PublishDueAnyBacklog(p) == ~p.nil

\* part_005:206: the Result Publisher runs for a complete backlog only
PublishDue(p) == ~p.nil /\ IsComplete(p)

\* part_005:197-214: final reload and progress
Final(p) ==
    /\ pc[p] = "final"
    /\ IF PublishDue(Load(prdFile))
       THEN /\ pc' = [pc EXCEPT ![p] = "publish"]
            /\ g' = [g EXCEPT ![p].p = Load(prdFile)]
       ELSE /\ pc' = [pc EXCEPT ![p] = "returned"]
            /\ g' = [g EXCEPT ![p].p = Load(prdFile), ![p].result = "nil"]
    /\ UNCHANGED <<registry, dirState, prdFile, lib, cli, clock, runs, ctxDone, child,
                   io, hist, cmd, mon>>

\* part_005:217-296: the errors createPullRequest can return, "nil" for none
PublishResults ==
    {"nil", "gh CLI not found", "failed to get branch",
     "cannot create PR from protected branch", "failed to push",
     "failed to create PR"}

\* the error of createPullRequest is returned by runAgent
RunResultPropagatesPublish(res) == res

\* part_005:208-214: the error of createPullRequest is printed as a warning
\* and runAgent returns nil
RunResultAfterPublish(res) == "nil"

\* what the publisher finds: gh on PATH, the outcome and output of
\* "git rev-parse --abbrev-ref HEAD", uncommitted changes, and the outcomes
\* of "git push" and "gh pr create"
Branches == {"main", "master", "feature/feat"}

PublishEnvs ==
    [gh : BOOLEAN, branchOK : BOOLEAN, branch : Branches, dirty : BOOLEAN,
     pushOK : BOOLEAN, prOK : BOOLEAN]

\* only main is treated as protected
ProtectedBranchesOnlyMain == {"main"}

\* part_005:232-235: the branches a pull request is never created from
ProtectedBranches == {"main", "master"}

\* part_005:217-296: createPullRequest; did is the set of commands it ran
\* ("commit" for git add and git commit, "push", "pr"), branch the branch
\* name it resolved
CreatePullRequest(env) ==
    IF ~env.gh
    THEN [err |-> "gh CLI not found", did |-> {}, branch |-> "none"]
    ELSE IF ~env.branchOK
    THEN [err |-> "failed to get branch", did |-> {}, branch |-> "none"]
    ELSE IF env.branch \in ProtectedBranches
    THEN [err |-> "cannot create PR from protected branch", did |-> {},
          branch |-> env.branch]
    ELSE LET committed == IF env.dirty THEN {"commit"} ELSE {}
         IN IF ~env.pushOK
            THEN [err |-> "failed to push", did |-> committed \cup {"push"},
                  branch |-> env.branch]
            ELSE IF ~env.prOK
            THEN [err |-> "failed to create PR",
                  did |-> committed \cup {"push", "pr"}, branch |-> env.branch]
            ELSE [err |-> "nil", did |-> committed \cup {"push", "pr"},
                  branch |-> env.branch]

\* part_005:206-214: runAgent calls createPullRequest and returns
Publish(p, env) ==
    /\ pc[p] = "publish"
    /\ LET out == CreatePullRequest(env)
       IN /\ hist' = [hist EXCEPT ![p].pubCalls = @ + 1,
                                  ![p].pubResult = out.err,
                                  ![p].pubBranch = out.branch,
                                  ![p].published = out.did]
          /\ g' = [g EXCEPT ![p].result = RunResultAfterPublish(out.err)]
    /\ pc' = [pc EXCEPT ![p] = "returned"]
    /\ UNCHANGED <<registry, dirState, prdFile, lib, cli, clock, runs, ctxDone, child,
                   io, cmd, mon>>

\* the user presses Ctrl-C in the terminal of the run, or sends SIGTERM
Interrupt(p) ==
    /\ ProcAlive(p)
    /\ ~ctxDone[p]
    /\ SignalEffect(p)
    /\ UNCHANGED <<registry, dirState, prdFile, lib, cli, clock, runs, g, child, io, cmd,
                   mon>>

\* ----------------------------------------------------- registry commands
CmdIssuable == cmd.op = "none" /\ mon.cmds < MaxCmds

\* the command returns err ("nil" for success) without a further step
CmdReturns(op, n, err) ==
    /\ cmd' = NoCmd
    /\ mon' = [mon EXCEPT !.cmds = @ + 1, !.last = [op |-> op, name |-> n, err |-> err]]

\* the command goes on to step next holding the record l
CmdContinues(op, n, next, l) ==
    /\ cmd' = [op |-> op, pc |-> next, name |-> n, loop |-> l,
               loaded |-> EmptyRegistry]
    /\ mon' = [mon EXCEPT !.cmds = @ + 1, !.last = NoResult]

\* part_009:136-145: the record "new" registers
NewRecord(n, now) ==
    Loop(n, PathOf(n), "proj", "feat", "feature/feat", "created", 0, now, 0, 0)

\* part_009:34-145: runNew creates the worktree n next to the project and
\* builds the record; it fails when the worktree directory exists
NewWorktree(n) ==
    /\ CmdIssuable
    /\ dirState[n] = "missing"
    /\ dirState' = [dirState EXCEPT ![n] = "project"]
    /\ CmdContinues("new", n, "load", NewRecord(n, Now))
    /\ clock' = clock + 1
    /\ UNCHANGED <<registry, prdFile, lib, cli, pc, runs, g, ctxDone, child, io, hist>>

\* a stop that leaves the pid in the record
StoppedRecordKeepsPid(l) == [l EXCEPT !.Status = "stopped"]

\* run_test.go:408-409, 423-424 and loop.go:79-80: the record a stop writes
StoppedRecord(l) == [l EXCEPT !.PID = 0, !.Status = "stopped"]

\* run_test.go:389-402: runStop reads the record; a missing record is an
\* error, a record with PID 0 is reported as not running
StopGet(n) ==
    /\ CmdIssuable
    /\ LET l == GetLoopIn(registry, n)
       IN IF l.nil THEN CmdReturns("stop", n, "loop not found")
          ELSE IF l.PID = 0 THEN CmdReturns("stop", n, "nil")
          ELSE CmdContinues("stop", n, "signal", l)
    /\ UNCHANGED <<registry, dirState, prdFile, lib, cli, clock, pc, runs, g, ctxDone,
                   child, io, hist>>

\* run_test.go:404-424: FindProcess, SIGTERM (a failure is only a warning),
\* then the record is marked stopped
StopSignal ==
    /\ cmd.op = "stop" /\ cmd.pc = "signal"
    /\ IF PidAlive(cmd.loop.PID)
       THEN SignalEffect(SlotOfPid(cmd.loop.PID))
       ELSE UNCHANGED <<pc, ctxDone, hist>>
    /\ cmd' = [cmd EXCEPT !.pc = "load", !.loop = StoppedRecord(cmd.loop)]
    /\ UNCHANGED <<registry, dirState, prdFile, lib, cli, clock, runs, g, child, io, mon>>

\* the liveness probe of the recorded pid is skipped
IsRunningByPidOnly(l) == ~l.nil /\ l.PID # 0

\* loop.go:13-26: IsRunning
IsRunning(l) == ~l.nil /\ l.PID # 0 /\ PidAlive(l.PID)

\* loop.go:37-40: Start is handed the record of session n and refuses when
\* its process is alive
SupStartProbe(n) ==
    /\ CmdIssuable
    /\ n = RunName
    /\ ~GetLoopIn(registry, n).nil
    /\ LET l == GetLoopIn(registry, n)
       IN IF IsRunning(l) THEN CmdReturns("Start", n, "loop is already running")
          ELSE CmdContinues("Start", n, "spawn", l)
    /\ UNCHANGED <<registry, dirState, prdFile, lib, cli, clock, pc, runs, g, ctxDone,
                   child, io, hist>>

\* loop.go:54-55: the record Start writes
SpawnedRecord(l, pid) == [l EXCEPT !.PID = pid, !.Status = "running"]

\* loop.go:42-55: "rl run" is started in the background in loop.Path
SupStartSpawn(p, mi, o, d) ==
    /\ cmd.op = "Start" /\ cmd.pc = "spawn"
    /\ LaunchEffect(p, mi, o, d)
    /\ cmd' = [cmd EXCEPT !.pc = "load",
                          !.loop = SpawnedRecord(cmd.loop, p + Cardinality(Procs) * runs[p])]
    /\ UNCHANGED <<registry, dirState, prdFile, lib, cli, clock, mon>>

\* loop.go:49-51: cmd.Start fails
SupStartSpawnFails ==
    /\ cmd.op = "Start" /\ cmd.pc = "spawn"
    /\ cmd' = NoCmd
    /\ mon' = [mon EXCEPT !.last = [op |-> "Start", name |-> cmd.name,
                                    err |-> "failed to start loop"]]
    /\ UNCHANGED <<registry, dirState, prdFile, lib, cli, clock, pc, runs, g, ctxDone,
                   child, io, hist>>

\* loop.go:64-67: Stop is handed the record of session n; not running is a
\* no-op
SupStopProbe(n) ==
    /\ CmdIssuable
    /\ LET l == GetLoopIn(registry, n)
       IN IF ~IsRunning(l) THEN CmdReturns("Stop", n, "nil")
          ELSE CmdContinues("Stop", n, "signal", l)
    /\ UNCHANGED <<registry, dirState, prdFile, lib, cli, clock, pc, runs, g, ctxDone,
                   child, io, hist>>

\* loop.go:69-80: SIGTERM; when the signal cannot be sent Stop returns the
\* error without touching the registry
SupStopSignal ==
    /\ cmd.op = "Stop" /\ cmd.pc = "signal"
    /\ IF PidAlive(cmd.loop.PID)
       THEN /\ SignalEffect(SlotOfPid(cmd.loop.PID))
            /\ cmd' = [cmd EXCEPT !.pc = "load", !.loop = StoppedRecord(cmd.loop)]
            /\ mon' = mon
       ELSE /\ UNCHANGED <<pc, ctxDone, hist>>
            /\ cmd' = NoCmd
            /\ mon' = [mon EXCEPT !.last = [op |-> "Stop", name |-> cmd.name,
                                            err |-> "failed to stop process"]]
    /\ UNCHANGED <<registry, dirState, prdFile, lib, cli, clock, runs, g, child, io>>

\* config.go:167-171: SetLoop of a command loads the registry file
CmdLoad ==
    /\ cmd.pc = "load"
    /\ cmd' = [cmd EXCEPT !.pc = "save", !.loaded = registry]
    /\ UNCHANGED <<registry, dirState, prdFile, lib, cli, clock, pc, runs, g, ctxDone,
                   child, io, hist, mon>>

\* config.go:172-173: SetLoop of a command stores its record and saves
CmdSave ==
    /\ cmd.pc = "save"
    /\ registry' = Written(PutLoopIn(cmd.loaded, cmd.loop))
    /\ mon' = [mon EXCEPT
                 !.runningOverRunning =
                    @ \/ /\ ~registry[cmd.name].nil
                         /\ registry[cmd.name].Status = "running"
                         /\ cmd.loop.Status = "running",
                 !.last = [op |-> cmd.op, name |-> cmd.name, err |-> "nil"]]
    /\ cmd' = NoCmd
    /\ UNCHANGED <<dirState, prdFile, lib, cli, clock, pc, runs, g, ctxDone, child, io,
                   hist>>

\* ------------------------------------------------- cmd/dashboard.go: cleanup
\* dashboard.go:185-241: runCleanup with the session name n as argument,
\* started in the project directory. The record decides the worktree path;
\* without a record the path is built from the project name and has no
\* record either (exists: that directory is there). proceed is --force or
\* the answer "y"
CleanupStart(n, exists, proceed) ==
    /\ CmdIssuable
    /\ LET l == GetLoopIn(registry, n)
       IN IF l.nil
          THEN IF dirState[RunName] # "project"
               THEN CmdReturns("cleanup", n, "not in a rl project")
               ELSE IF ~exists THEN CmdReturns("cleanup", n, "worktree not found")
               ELSE CmdReturns("cleanup", n, "nil")
          ELSE IF dirState[l.Name] = "missing"
               THEN CmdReturns("cleanup", n, "worktree not found")
               ELSE IF ~proceed THEN CmdReturns("cleanup", n, "nil")
               ELSE CmdContinues("cleanup", n, "remove", l)
    /\ UNCHANGED <<registry, dirState, prdFile, lib, cli, clock, pc, runs, g, ctxDone,
                   child, io, hist>>

\* dashboard.go:243-311: hook, git worktree remove --force (os.RemoveAll when
\* that fails); the backlog file goes with the directory
CleanupRemoveWorktree ==
    /\ cmd.op = "cleanup" /\ cmd.pc = "remove"
    /\ dirState' = [dirState EXCEPT ![cmd.loop.Name] = "missing"]
    /\ prdFile' = IF cmd.loop.Name = RunName THEN Absent ELSE prdFile
    /\ cmd' = [cmd EXCEPT !.pc = "rmLoad"]
    /\ UNCHANGED <<registry, lib, cli, clock, pc, runs, g, ctxDone, child, io, hist,
                   mon>>

\* dashboard.go:321-324 and config.go:177-181: RemoveLoop loads the registry
CleanupLoad ==
    /\ cmd.op = "cleanup" /\ cmd.pc = "rmLoad"
    /\ cmd' = [cmd EXCEPT !.pc = "rmSave", !.loaded = registry]
    /\ UNCHANGED <<registry, dirState, prdFile, lib, cli, clock, pc, runs, g, ctxDone,
                   child, io, hist, mon>>

\* config.go:182-183 and dashboard.go:326-328: the key is deleted, the file
\* saved and success reported
CleanupSave ==
    /\ cmd.op = "cleanup" /\ cmd.pc = "rmSave"
    /\ registry' = Written(DeleteLoopIn(cmd.loaded, cmd.loop.Name))
    /\ mon' = [mon EXCEPT !.last = [op |-> "cleanup", name |-> cmd.name,
                                    err |-> "nil"]]
    /\ cmd' = NoCmd
    /\ UNCHANGED <<dirState, prdFile, lib, cli, clock, pc, runs, g, ctxDone, child, io,
                   hist>>

\* --------------------------------------------------- callers of package prd
\* the stories and names a caller passes in
ItemInputs == {Item(id, "t", "d", <<"c">>, b) : id \in {"", "2"}, b \in BOOLEAN}

NameInputs == {"n", "m"}

\* cmd/prd.go:118-122: a PRD value with no stories
LibNew(name) ==
    /\ lib' = [lib EXCEPT !.op = "new", !.arg = NoItem, !.err = "nil",
                          !.p = PRD(name, "d", << >>), !.q = NoQuery]
    /\ UNCHANGED <<cli, registry, dirState, prdFile, clock, pc, runs, g, ctxDone,
                   child, io, hist, cmd, mon>>

\* prd.go:124-130: p.AddStory(story)
LibAddStory(item) ==
    /\ ~lib.p.nil
    /\ Len(lib.p.UserStories) < MaxItems
    /\ lib' = [lib EXCEPT !.op = "add", !.arg = item, !.err = "nil",
                          !.p = AddStory(lib.p, item), !.q = NoQuery]
    /\ UNCHANGED <<cli, registry, dirState, prdFile, clock, pc, runs, g, ctxDone,
                   child, io, hist, cmd, mon>>

\* prd.go:52-66: Save(root, p) creates .ralph and writes prd.json
LibSave ==
    /\ ~lib.p.nil
    /\ prdFile' = Save(lib.p)
    /\ dirState' = [dirState EXCEPT ![RunName] = "project"]
    /\ lib' = [lib EXCEPT !.op = "save", !.arg = NoItem, !.err = "nil",
                          !.saved = lib.p]
    /\ UNCHANGED <<cli, registry, clock, pc, runs, g, ctxDone, child, io, hist,
                   cmd, mon>>

\* prd.go:32-49: Load(root)
LibLoad ==
    /\ lib' = [lib EXCEPT !.op = "load", !.arg = NoItem,
                          !.err = IF LoadErr(prdFile) THEN "failed to parse PRD"
                                  ELSE "nil",
                          !.p = Load(prdFile), !.q = NoQuery]
    /\ UNCHANGED <<cli, registry, dirState, prdFile, clock, pc, runs, g, ctxDone,
                   child, io, hist, cmd, mon>>

\* cmd/prd.go:81 and dashboard.go:102-108: the queries on a loaded PRD
LibQuery ==
    /\ ~lib.p.nil
    /\ lib' = [lib EXCEPT !.op = "query", !.arg = NoItem,
                          !.q = [asked |-> TRUE,
                                 complete |-> IsComplete(lib.p),
                                 current |-> GetCurrentStory(lib.p),
                                 percent |-> ProgressPercent(lib.p),
                                 progress |-> Progress(lib.p)]]
    /\ UNCHANGED <<cli, registry, dirState, prdFile, clock, pc, runs, g, ctxDone,
                   child, io, hist, cmd, mon>>

\* ------------------------------------------------ callers of the registry
\* the records a client stores: one of a running and one of a stopped session
LoopInputs(N) ==
    {Loop(n, PathOf(n), "proj", "feat", "feature/feat", "running", 7, 1, 2, 0) :
        n \in N}
    \cup {Loop(n, PathOf(n), "proj", "feat", "feature/feat", "stopped", 0, 1, 0, 3) :
        n \in N}

\* config.go:121-138: LoadLoops, an empty map when the file does not exist
LoadLoops == registry

\* config.go:158-164: GetLoop(name)
GetLoop(p, n) ==
    /\ cli[p].pc = "idle"
    /\ cli' = [cli EXCEPT ![p].op = "get", ![p].name = n,
                          ![p].got = GetLoopIn(LoadLoops, n)]
    /\ UNCHANGED <<registry, dirState, prdFile, lib, clock, pc, runs, g, ctxDone,
                   child, io, hist, cmd, mon>>

\* loop.go:86-98: ListAll collects the values of the loaded map
ListAll(p) ==
    /\ cli[p].pc = "idle"
    /\ cli' = [cli EXCEPT ![p].op = "list", ![p].name = "",
                          ![p].listed =
                              {LoadLoops[n] : n \in {m \in Names : ~LoadLoops[m].nil}}]
    /\ UNCHANGED <<registry, dirState, prdFile, lib, clock, pc, runs, g, ctxDone,
                   child, io, hist, cmd, mon>>

\* config.go:167-171: SetLoop(loop) loads the registry
SetLoopLoad(p, l) ==
    /\ cli[p].pc = "idle"
    /\ Len(cli[p].log) < MaxOps
    /\ cli' = [cli EXCEPT ![p].pc = "save", ![p].op = "set", ![p].name = l.Name,
                          ![p].loop = l, ![p].loaded = LoadLoops]
    /\ UNCHANGED <<registry, dirState, prdFile, lib, clock, pc, runs, g, ctxDone,
                   child, io, hist, cmd, mon>>

\* config.go:172-173: SetLoop stores the record in what it loaded and saves
SetLoopSave(p) ==
    /\ cli[p].pc = "save"
    /\ cli[p].op = "set"
    /\ SaveLoops(PutLoopIn(cli[p].loaded, cli[p].loop), cli[p].name)
    /\ cli' = [cli EXCEPT ![p].pc = "idle",
                          ![p].log = Append(@, [op |-> "set", loop |-> cli[p].loop])]
    /\ UNCHANGED <<dirState, prdFile, lib, clock, pc, runs, g, ctxDone, child, io,
                   hist, cmd>>

\* config.go:177-181: RemoveLoop(name) loads the registry
RemoveLoopLoad(p, n) ==
    /\ cli[p].pc = "idle"
    /\ Len(cli[p].log) < MaxOps
    /\ cli' = [cli EXCEPT ![p].pc = "save", ![p].op = "remove", ![p].name = n,
                          ![p].loop = NoLoop, ![p].loaded = LoadLoops]
    /\ UNCHANGED <<registry, dirState, prdFile, lib, clock, pc, runs, g, ctxDone,
                   child, io, hist, cmd, mon>>

\* config.go:182-183: RemoveLoop deletes the key from what it loaded and saves
RemoveLoopSave(p) ==
    /\ cli[p].pc = "save"
    /\ cli[p].op = "remove"
    /\ SaveLoops(DeleteLoopIn(cli[p].loaded, cli[p].name), "")
    /\ cli' = [cli EXCEPT ![p].pc = "idle",
                          ![p].log = Append(@, [op |-> "remove",
                                                loop |-> [NoLoop EXCEPT !.Name = cli[p].name]])]
    /\ UNCHANGED <<dirState, prdFile, lib, clock, pc, runs, g, ctxDone, child, io,
                   hist, cmd>>

\* ---------------------------------------------------------- specification
\* no process has been started and no command issued
InitLocal ==
    /\ dirState \in {[n \in Names |-> IF n = RunName THEN d ELSE "missing"] :
                       d \in {"missing", "plain", "project"}}
    /\ prdFile \in IF dirState[RunName] = "project"
                   THEN {Absent, Malformed} \cup {FileOf(b) : b \in Backlogs}
                   ELSE {Absent}
    /\ pc = [p \in Procs |-> "idle"]
    /\ runs = [p \in Procs |-> 0]
    /\ g = [p \in Procs |-> GoInit]
    /\ ctxDone = [p \in Procs |-> FALSE]
    /\ child = [p \in Procs |-> "none"]
    /\ io = [p \in Procs |-> NoIO]
    /\ hist = [p \in Procs |-> HistInit]
    /\ cmd = NoCmd
    /\ mon = MonInit
    /\ lib = LibInit
    /\ cli = [p \in Procs |-> CliInit]

\* no registry file yet
Init ==
    /\ registry = EmptyRegistry
    /\ clock = 0
    /\ InitLocal

Flags == (0..MaxIterationsBound) \X BOOLEAN \X BOOLEAN

\* the flags of the runs that race for the registry: two iterations, no
\* preview
RaceFlags == {<<2, FALSE, FALSE>>}

Engine(p, F, R) ==
    \/ \E f \in F : runs[p] < R /\ Launch(p, f[1], f[2], f[3])
    \/ FindRootAndLoad(p)
    \/ Guard(p)
    \/ StartLoad(p)
    \/ StartSave(p)
    \/ Notify(p)
    \/ Top(p)
    \/ \E found \in BOOLEAN, startOK \in BOOLEAN : Invoke(p, found, startOK)
    \/ Wait(p)
    \/ Join(p)
    \/ After(p)
    \/ Pause(p)
    \/ ExitLoad(p)
    \/ ExitSave(p)
    \/ Final(p)
    \/ \E env \in PublishEnvs : Publish(p, env)
    \/ Interrupt(p)

Agent(p) ==
    \/ \E i \in 1..MaxStories : AgentMarksStory(p, i)
    \/ AgentRemovesBacklog(p)
    \/ \E ok \in BOOLEAN : ChildExits(p, ok)
    \/ CtxKill(p)

Streams(p) ==
    \/ \E s \in {"out", "err"} : ChildWrites(p, s)
    \/ \E s \in {"out", "err"} : ReaderReads(p, s)
    \/ \E s \in {"out", "err"} : ReaderEnds(p, s)

Commands(F, P) ==
    \/ \E n \in Names : NewWorktree(n)
    \/ \E n \in Names : StopGet(n)
    \/ StopSignal
    \/ \E n \in Names : SupStartProbe(n)
    \/ \E p \in P, f \in F : SupStartSpawn(p, f[1], f[2], f[3])
    \/ SupStartSpawnFails
    \/ \E n \in Names : SupStopProbe(n)
    \/ SupStopSignal
    \/ CmdLoad
    \/ CmdSave

\* one engine process at a time, every input and every step of a run
Next ==
    \/ Engine(1, Flags, MaxRuns)
    \/ Agent(1)
    \/ Streams(1)

Spec == Init /\ [][Next]_vars

\* the races start in a project whose backlog has one story
InitRace ==
    /\ Init
    /\ dirState[RunName] = "project"
    /\ prdFile \in {FileOf(<<Story(1, b)>>) : b \in BOOLEAN}

\* the flags of the second of two racing runs: a single iteration
SecondFlags == {<<1, FALSE, FALSE>>}

\* two engine processes started by hand in the same project directory
NextRace ==
    \/ Engine(1, RaceFlags, 1)
    \/ Engine(2, SecondFlags, 1)
    \/ \E p \in Procs, ok \in BOOLEAN : ChildExits(p, ok)
    \/ \E p \in Procs : CtxKill(p)
    \/ \E p \in Procs, s \in {"out", "err"} : ReaderEnds(p, s)

SpecRace == InitRace /\ [][NextRace]_vars

\* one engine process and the registry commands new, stop, Start and Stop
NextCmd ==
    \/ Engine(1, RaceFlags, MaxRuns)
    \/ \E ok \in BOOLEAN : ChildExits(1, ok)
    \/ CtxKill(1)
    \/ \E s \in {"out", "err"} : ReaderEnds(1, s)
    \/ Commands(RaceFlags, {1})

SpecCmd == InitRace /\ [][NextCmd]_vars

\* the registries "new" has left behind: each session registered or not
RegistryInputs ==
    {[n \in Names |-> IF n = RunName THEN a ELSE b] :
        a \in {NoLoop, NewRecord(RunName, 1)},
        b \in {NoLoop, NewRecord(OtherName, 2)}}

\* a project with a backlog of one story and a registry written earlier
InitFrame ==
    /\ registry \in RegistryInputs
    /\ clock = 2
    /\ InitLocal
    /\ dirState[RunName] = "project"
    /\ prdFile \in {FileOf(<<Story(1, b)>>) : b \in BOOLEAN}

\* runs of one engine process are the only writers of the registry
NextFrame ==
    \/ Engine(1, RaceFlags, MaxRuns)
    \/ \E ok \in BOOLEAN : ChildExits(1, ok)
    \/ CtxKill(1)
    \/ \E s \in {"out", "err"} : ReaderEnds(1, s)

SpecFrame == InitFrame /\ [][NextFrame]_vars

\* one run and the cleanup command
NextCleanup ==
    \/ Engine(1, RaceFlags, 1)
    \/ \E ok \in BOOLEAN : ChildExits(1, ok)
    \/ CtxKill(1)
    \/ \E s \in {"out", "err"} : ReaderEnds(1, s)
    \/ \E n \in Names, exists \in BOOLEAN, proceed \in BOOLEAN :
           CleanupStart(n, exists, proceed)
    \/ CleanupRemoveWorktree
    \/ CleanupLoad
    \/ CleanupSave

SpecCleanup == InitFrame /\ [][NextCleanup]_vars

\* the steps of a run after its launch, up to its return; the run is not
\* interrupted from its terminal and the backlog stays unfinished
RunSteps(p) ==
    \/ FindRootAndLoad(p)
    \/ Guard(p)
    \/ StartLoad(p)
    \/ StartSave(p)
    \/ Notify(p)
    \/ Top(p)
    \/ \E found \in BOOLEAN, startOK \in BOOLEAN : Invoke(p, found, startOK)
    \/ Wait(p)
    \/ Join(p)
    \/ After(p)
    \/ ExitLoad(p)
    \/ ExitSave(p)
    \/ Final(p)

\* the user starts a run in the project once "ralph stop" has returned
LaunchAfterStop(p, mi, o, d) ==
    /\ cmd.op = "none"
    /\ mon.last = [op |-> "stop", name |-> RunName, err |-> "nil"]
    /\ Launch(p, mi, o, d)

\* the backlog has one unfinished story
InitStop ==
    /\ InitRace
    /\ prdFile = FileOf(<<Story(1, FALSE)>>)

\* a run is started in the project, the session is stopped with the stop
\* command and a second run is started after that
NextStop ==
    \/ \E f \in SecondFlags : runs[1] < 1 /\ Launch(1, f[1], f[2], f[3])
    \/ \E f \in SecondFlags : runs[2] < 1 /\ LaunchAfterStop(2, f[1], f[2], f[3])
    \/ \E p \in Procs : RunSteps(p)
    \/ \E p \in Procs, ok \in BOOLEAN : ChildExits(p, ok)
    \/ \E p \in Procs : CtxKill(p)
    \/ \E p \in Procs, s \in {"out", "err"} : ReaderEnds(p, s)
    \/ StopGet(RunName)
    \/ StopSignal
    \/ CmdLoad
    \/ CmdSave

SpecStop == InitStop /\ [][NextStop]_vars

\* the flags of the runs whose termination is examined: the iteration cap
\* ranges from below zero to the bound
LiveFlags == ((0 - 1)..MaxIterationsBound) \X BOOLEAN \X BOOLEAN

\* a step of the engine process itself, from its start to its return
EngineStep(p) ==
    \/ RunSteps(p)
    \/ Pause(p)
    \/ \E env \in PublishEnvs : Publish(p, env)

\* one run with every input, the agent and the streams of its calls
NextLive ==
    \/ \E f \in LiveFlags : runs[1] < 1 /\ Launch(1, f[1], f[2], f[3])
    \/ EngineStep(1)
    \/ Interrupt(1)
    \/ Agent(1)
    \/ Streams(1)

\* the engine process keeps running while it is alive (Go schedules a
\* runnable goroutine, time.After fires), every agent child exits or is
\* killed, and a blocked Read returns once the pipe has data, is at end of
\* file or is closed
Fairness ==
    /\ WF_vars(EngineStep(1))
    /\ WF_vars(\E ok \in BOOLEAN : ChildExits(1, ok))
    /\ WF_vars(CtxKill(1))
    /\ WF_vars(\E s \in {"out", "err"} : ReaderReads(1, s))
    /\ WF_vars(\E s \in {"out", "err"} : ReaderEnds(1, s))

SpecLive == Init /\ [][NextLive]_vars /\ Fairness

\* a caller of package prd builds, saves, loads and queries backlogs
NextPrd ==
    \/ \E name \in NameInputs : LibNew(name)
    \/ \E item \in ItemInputs : LibAddStory(item)
    \/ LibSave
    \/ LibLoad
    \/ LibQuery

SpecPrd == Init /\ [][NextPrd]_vars

\* the registry file lives outside the project directories
InitReg ==
    /\ Init
    /\ dirState[RunName] = "missing"

\* one process calls the registry operations
NextReg ==
    \/ \E n \in Names : GetLoop(1, n)
    \/ ListAll(1)
    \/ \E l \in LoopInputs(Names) : SetLoopLoad(1, l)
    \/ SetLoopSave(1)
    \/ \E n \in Names : RemoveLoopLoad(1, n)
    \/ RemoveLoopSave(1)

SpecReg == InitReg /\ [][NextReg]_vars

\* the session name process p works on
NameOf(p) == IF p = 1 THEN RunName ELSE OtherName

\* two processes call SetLoop and RemoveLoop, each for its own session name
NextRegRace ==
    \/ \E p \in Procs : \E l \in LoopInputs({NameOf(p)}) : SetLoopLoad(p, l)
    \/ \E p \in Procs : SetLoopSave(p)
    \/ \E p \in Procs : RemoveLoopLoad(p, NameOf(p))
    \/ \E p \in Procs : RemoveLoopSave(p)

SpecRegRace == InitReg /\ [][NextRegRace]_vars

\* ------------------------------------------------------------ properties
\* the iteration loop of runAgent (part_005:133-187)
InLoop(p) == pc[p] \in {"top", "invoke", "wait", "join", "after", "pause"}

RecordRunning(l) == ~l.nil /\ l.Status = "running"

\* C1: a run start that finds the registry record of its session with status
\* "running" returns the already-running error, and that step changes nothing
\* in the registry; the refused run has made no registry write.
C1_RefusedStartLeavesRegistry ==
    [][\A p \in Procs :
         (/\ pc[p] = "guard"
          /\ pc'[p] \notin {"guard", "dead"}
          /\ RecordRunning(registry[RunName]))
         => /\ pc'[p] = "returned"
            /\ g'[p].result = "loop is already running"
            /\ registry' = registry
            /\ ~hist'[p].entered]_vars

C1_Witness ==
    /\ pc[1] = "returned"
    /\ g[1].result = "loop is already running"
    /\ RecordRunning(registry[RunName])

\* C2: two processes started on the same session are never both inside the
\* iteration loop.
C2_AtMostOneDriver ==
    \A p \in Procs, q \in Procs : p # q => ~(InLoop(p) /\ InLoop(q))

\* C3: every record of the registry has a non-zero pid if and only if its
\* status is "running".
C3_PidIffRunning ==
    \A n \in Names :
        ~registry[n].nil => (registry[n].PID # 0 <=> registry[n].Status = "running")

C3_Witness ==
    /\ ~registry[OtherName].nil /\ registry[OtherName].Status = "created"
    /\ RecordRunning(registry[RunName]) /\ registry[RunName].PID # 0

\* C4: a run that entered Running and has left the loop and finished its exit
\* step has written its record with status "stopped", pid 0 and a stopped
\* timestamp, whatever the terminal state; with one engine and no other
\* writer that record is the one in the registry.
C4_ExitAlwaysWritten ==
    \A p \in {1} :
        (pc[p] \in {"final", "publish", "returned"} /\ hist[p].entered)
        => /\ hist[p].exitWritten
           /\ hist[p].terminal \in {"Completed", "Interrupted", "IterationLimitReached"}
           /\ registry[RunName].Status = "stopped"
           /\ registry[RunName].PID = 0
           /\ registry[RunName].Stopped # 0

C4_Witness ==
    /\ pc[1] = "returned"
    /\ hist[1].entered
    /\ hist[1].terminal = "Interrupted"
    /\ registry[RunName].Status = "stopped"

\* C5: no write stores status "running" for a session whose record in the
\* registry already has status "running".
C5_NoRunningOverRunning == ~mon.runningOverRunning

\* C6: the number of invoker calls of a run never exceeds the configured
\* maximum, failed calls included, and never exceeds 1 in --once mode.
C6_CallsBounded ==
    \A p \in Procs :
        /\ hist[p].calls <= g[p].maxIterations
        /\ g[p].once => hist[p].calls <= 1

C6_Witness ==
    /\ hist[1].calls = 2
    /\ g[1].maxIterations = 2
    /\ \E i \in 1..Len(hist[1].log) : hist[1].log[i][1] = "error"

\* C7: when iteration k+1 has started, the invoker call of iteration k has
\* fully returned: its child has exited and been waited for, both reader
\* goroutines have ended and every chunk the child wrote has been logged.
C7_IterationsSequential ==
    \A p \in Procs :
        (pc[p] = "invoke" /\ g[p].iteration > 1)
        => /\ child[p] = "none"
           /\ \A s \in {"out", "err"} :
                 /\ io[p].reader[s] # "reading"
                 /\ io[p].logged[s] = io[p].written[s]

\* C8: once a cancellation has arrived while iteration k was in progress, no
\* later iteration writes its iteration-started entry or calls the invoker.
C8_NoIterationAfterCancel ==
    [][\A p \in Procs :
         (hist[p].cancelledIn > 0 /\ runs'[p] = runs[p])
         => /\ hist'[p].calls # hist[p].calls
                  => g[p].iteration = hist[p].cancelledIn
            /\ Len(hist'[p].log) > Len(hist[p].log)
                  => hist'[p].log[Len(hist'[p].log)][1] # "started"]_vars

\* C9: after an invoker call that failed, the loop logs the error and goes on
\* to the next iteration when the context is not cancelled, and leaves the
\* loop as Interrupted when it is.
C9_FailedIterationContinues ==
    [][\A p \in Procs :
         (pc[p] = "after" /\ pc'[p] # "after" /\ g[p].err # "nil")
         => IF ctxDone[p]
            THEN pc'[p] = "exitLoad" /\ hist'[p].terminal = "Interrupted"
            ELSE /\ pc'[p] = "top"
                 /\ g'[p].iteration = g[p].iteration + 1
                 /\ hist'[p].log = Append(hist[p].log, <<"error", g[p].iteration>>)
                 /\ hist'[p].terminal = "none"]_vars

C9_Witness ==
    \E i \in 1..(Len(hist[1].log) - 1) :
        /\ hist[1].log[i] = <<"error", 1>>
        /\ hist[1].log[i + 1] = <<"started", 2>>

\* C10: a run that has entered Running returns nil; a run that returns an
\* error has made no registry write.
C10_OnlySetupErrorsFail ==
    \A p \in Procs :
        pc[p] = "returned"
        => /\ hist[p].entered => g[p].result = "nil"
           /\ g[p].result # "nil"
                 => /\ ~hist[p].entered
                    /\ g[p].result \in {"not in a ralph project", "failed to load PRD",
                                        "no PRD found", "loop is already running"}

C10_Witness ==
    /\ pc[1] = "returned"
    /\ hist[1].entered
    /\ hist[1].pubResult \notin {"none", "nil"}
    /\ \E i \in 1..Len(hist[1].log) : hist[1].log[i][1] = "error"
    /\ g[1].result = "nil"

\* C11: a run whose agent binary cannot be resolved is refused before it
\* enters Running: the lookup never fails in a run that has written its
\* start record, and no invoker call is counted for it.
C11_MissingAgentRefusedAtSetup ==
    \A p \in Procs :
        g[p].err = "claude CLI not found"
        => /\ ~hist[p].entered
           /\ hist[p].calls = 0

\* C12: a run started outside a project, or in a project without a backlog
\* file, returns "not in a ralph project" / "no PRD found"; that step leaves
\* the registry unchanged and the run has neither entered Running nor called
\* the invoker.
C12_SetupErrorsBeforeRegistry ==
    [][\A p \in Procs :
         (/\ pc[p] = "findRoot"
          /\ pc'[p] \notin {"findRoot", "dead"}
          /\ (dirState[RunName] # "project" \/ prdFile = Absent))
         => /\ pc'[p] = "returned"
            /\ g'[p].result = IF dirState[RunName] # "project"
                              THEN "not in a ralph project" ELSE "no PRD found"
            /\ registry' = registry
            /\ hist'[p].calls = 0
            /\ ~hist'[p].entered]_vars

C12_Witness ==
    /\ pc[1] = "returned"
    /\ g[1].result = "no PRD found"
    /\ ~hist[1].entered
    /\ ~registry[RunName].nil /\ registry[RunName].Status = "stopped"

\* C13 as stated: every run whose loop ended in Completed has invoked the
\* Result Publisher exactly once.
C13_CompletedPublishesOnce ==
    \A p \in Procs :
        (pc[p] = "returned" /\ hist[p].terminal = "Completed")
        => hist[p].pubCalls = 1

\* C13 amended: a run whose loop ended in Completed and whose backlog exists
\* at the exit reload has invoked the Result Publisher exactly once; when the
\* backlog is missing at exit the publisher is not invoked.
C13_CompletedBacklogPublishesOnce ==
    \A p \in Procs :
        (pc[p] = "returned" /\ hist[p].terminal = "Completed")
        => hist[p].pubCalls = IF g[p].p.nil THEN 0 ELSE 1

C13_Witness ==
    /\ pc[1] = "returned"
    /\ hist[1].terminal = "Completed"
    /\ hist[1].calls >= 1
    /\ hist[1].pubCalls = 1

\* C14: the Result Publisher is invoked at most once in a run, and only when
\* the backlog reloaded at engine exit is non-empty with every story passing.
C14_PublishOnlyWhenComplete ==
    \A p \in Procs :
        /\ hist[p].pubCalls <= 1
        /\ (pc[p] = "publish" \/ hist[p].pubCalls > 0)
           => /\ ~g[p].p.nil
              /\ Len(g[p].p.UserStories) > 0
              /\ \A i \in 1..Len(g[p].p.UserStories) : g[p].p.UserStories[i].passes
        /\ (pc[p] = "returned" /\ hist[p].entered
            /\ (g[p].p.nil \/ Len(g[p].p.UserStories) = 0
                \/ \E i \in 1..Len(g[p].p.UserStories) : ~g[p].p.UserStories[i].passes))
           => hist[p].pubCalls = 0

C14_Witness ==
    /\ pc[1] = "returned"
    /\ hist[1].terminal = "IterationLimitReached"
    /\ hist[1].pubCalls = 1
    /\ Len(g[1].p.UserStories) = MaxStories

\* C15: a run that reaches its first iteration with a backlog that is
\* non-empty and fully passing leaves the loop as Completed without an invoker
\* call; such a run returns nil, leaves the session stopped with pid 0 and
\* has invoked the Result Publisher once.
C15_CompleteBacklogRunsNothing ==
    /\ [][\A p \in Procs :
            (/\ pc[p] = "top" /\ pc'[p] # "top"
             /\ g[p].iteration = 1 /\ g[p].maxIterations >= 1
             /\ ~g[p].p.nil /\ Len(g[p].p.UserStories) > 0
             /\ \A i \in 1..Len(g[p].p.UserStories) : g[p].p.UserStories[i].passes)
            => /\ pc'[p] = "exitLoad"
               /\ hist'[p].terminal = "Completed"
               /\ hist'[p].calls = 0]_vars
    /\ [](\A p \in {1} :
            (pc[p] = "returned" /\ hist[p].terminal = "Completed" /\ hist[p].calls = 0)
            => /\ g[p].result = "nil"
               /\ hist[p].pubCalls = 1
               /\ registry[RunName].Status = "stopped"
               /\ registry[RunName].PID = 0)

C15_Witness ==
    /\ pc[1] = "returned"
    /\ hist[1].terminal = "Completed"
    /\ hist[1].calls = 0
    /\ hist[1].pubResult = "nil"
    /\ registry[RunName].Status = "stopped"

\* C16: a run with cap 1 whose backlog is one unfinished story, still
\* unfinished at exit, has made exactly one invoker call, reports the final
\* progress 0/1, has not invoked the Result Publisher and leaves the session
\* stopped.
C16_OneIterationLeavesIncomplete ==
    \A p \in {1} :
        (/\ pc[p] = "returned" /\ hist[p].entered
         /\ g[p].maxIterations = 1
         /\ g[p].p = PRDOf(<<Story(1, FALSE)>>))
        => /\ hist[p].calls = 1
           /\ Progress(g[p].p) = <<0, 1>>
           /\ hist[p].pubCalls = 0
           /\ registry[RunName].Status = "stopped"
           /\ registry[RunName].PID = 0

C16_Witness ==
    /\ pc[1] = "returned" /\ hist[1].entered
    /\ g[1].maxIterations = 1 /\ ~g[1].once
    /\ g[1].p = PRDOf(<<Story(1, FALSE)>>)
    /\ hist[1].log = <<<<"started", 1>>, <<"completed", 1, <<0, 1>>>>>>
    /\ hist[1].terminal = "IterationLimitReached"

C18_StopNotRunningIsNoOp ==
    [][\A n \in Names :
         LET issued(op) ==
                 /\ cmd.op = "none"
                 /\ mon'.cmds = mon.cmds + 1
                 /\ \/ cmd'.op = op /\ cmd'.name = n
                    \/ cmd' = NoCmd /\ mon'.last.op = op /\ mon'.last.name = n
             noOp ==
                 /\ cmd' = NoCmd
                 /\ mon'.last.err = "nil"
                 /\ registry' = registry
                 /\ pc' = pc
                 /\ ctxDone' = ctxDone
         IN /\ (issued("stop") /\ ~registry[n].nil /\ registry[n].PID = 0) => noOp
            /\ (issued("Stop") /\ (registry[n].nil \/ registry[n].PID = 0
                                   \/ ~PidAlive(registry[n].PID))) => noOp]_vars

C18_Witness ==
    /\ mon.cmds = 1
    /\ mon.last = [op |-> "Stop", name |-> RunName, err |-> "nil"]
    /\ cmd = NoCmd
    /\ runs[1] = 1 /\ pc[1] = "dead"
    /\ RecordRunning(registry[RunName]) /\ registry[RunName].PID # 0

\* C19: a stop of a running session that has reached its signal step always
\* goes on to write the record with status "stopped" and pid 0, whether or
\* not the signal could be sent.
C19_StopAlwaysWrites ==
    [][(cmd.op \in {"stop", "Stop"} /\ cmd.pc = "signal" /\ cmd' # cmd)
       => /\ cmd'.pc = "load"
          /\ cmd'.loop.Status = "stopped"
          /\ cmd'.loop.PID = 0]_vars

\* C20: when an invoker call has returned, the stdout reader and the stderr
\* reader of the call have ended and every chunk the child wrote to either
\* stream has been copied to the log.
C20_InvokerJoinsReaders ==
    \A p \in Procs :
        pc[p] = "after"
        => \A s \in {"out", "err"} :
              /\ io[p].reader[s] \in {"none", "done"}
              /\ io[p].logged[s] = io[p].written[s]

\* C29: when the branch the publisher resolved is main or master, the
\* publisher has run no commit, no push and no pull-request creation and has
\* returned the protected-branch error.
C29_ProtectedBranchUntouched ==
    \A p \in Procs :
        hist[p].pubBranch \in {"main", "master"}
        => /\ hist[p].published = {}
           /\ hist[p].pubResult = "cannot create PR from protected branch"

C29_Witness ==
    /\ pc[1] = "returned"
    /\ hist[1].pubCalls = 1
    /\ hist[1].pubBranch = "master"
    /\ hist[1].published = {}

\* C30: the publisher step never changes the registry and the run returns
\* nil whatever the publisher returned; with one engine the record of the
\* session is the exit record (stopped, pid 0) before and after it.
C30_PublisherFailureIsWarning ==
    [][\A p \in {1} :
         (pc[p] = "publish" /\ pc'[p] # "publish")
         => /\ registry' = registry
            /\ registry[RunName].Status = "stopped"
            /\ registry[RunName].PID = 0
            /\ pc'[p] = "returned"
            /\ g'[p].result = "nil"]_vars

C30_Witness ==
    /\ pc[1] = "returned"
    /\ hist[1].pubResult = "failed to push"
    /\ hist[1].published = {"commit", "push"}
    /\ g[1].result = "nil"
    /\ registry[RunName].Status = "stopped" /\ registry[RunName].PID = 0

\* C23: IsComplete answers true exactly for a backlog that is not empty and
\* whose stories all pass; for the empty backlog it answers false
C23_IsCompleteNonEmptyAllPass ==
    lib.q.asked =>
        LET st == lib.p.UserStories
        IN  /\ Len(st) = 0 => ~lib.q.complete
            /\ Len(st) > 0 => (lib.q.complete <=> \A i \in 1..Len(st) : st[i].passes)

C23_Witness ==
    /\ lib.q.asked
    /\ ~lib.p.nil
    /\ Len(lib.p.UserStories) = 0
    /\ ~lib.q.complete

\* C24: GetCurrentStory yields the story at the smallest position whose passes
\* is false and nothing exactly when every story passes; ids play no part
C24_FirstIncompleteByPosition ==
    lib.q.asked =>
        LET st == lib.p.UserStories
            k  == lib.q.current
        IN  /\ k \in 0..Len(st)
            /\ (k = 0) <=> \A i \in 1..Len(st) : st[i].passes
            /\ k > 0 => /\ ~st[k].passes
                        /\ \A i \in 1..(k - 1) : st[i].passes

C24_Witness ==
    /\ lib.q.asked
    /\ Len(lib.p.UserStories) = 3
    /\ lib.p.UserStories[1].id = lib.p.UserStories[2].id
    /\ lib.p.UserStories[1].passes
    /\ ~lib.p.UserStories[3].passes
    /\ lib.q.current = 2

\* C25: ProgressPercent is the floor of 100 * done / total, 0 for the empty
\* backlog, lies in 0..100 and is 100 exactly when the backlog is complete
C25_PercentIsFloor ==
    lib.q.asked =>
        LET st    == lib.p.UserStories
            total == Len(st)
            done  == Cardinality({i \in 1..total : st[i].passes})
            pct   == lib.q.percent
        IN  /\ pct \in 0..100
            /\ total = 0 => pct = 0
            /\ total > 0 => /\ pct * total <= 100 * done
                            /\ 100 * done < (pct + 1) * total
            /\ (pct = 100) <=> (total > 0 /\ \A i \in 1..total : st[i].passes)
            /\ (pct = 100) <=> lib.q.complete

C25_Witness ==
    /\ lib.q.asked
    /\ Len(lib.p.UserStories) = 3
    /\ lib.q.progress = <<2, 3>>
    /\ lib.q.percent = 66

\* C26: AddStory puts the story at the end and leaves the stories before it as
\* they were; the stored id is the decimal of the new length when the supplied
\* id is empty and the supplied id otherwise
C26_AppendAtEnd ==
    [][(lib'.op = "add" /\ lib' # lib) =>
        LET old == lib.p.UserStories
            new == lib'.p.UserStories
            arg == lib'.arg
        IN  /\ Len(new) = Len(old) + 1
            /\ \A i \in 1..Len(old) : new[i] = old[i]
            /\ new[Len(new)].title = arg.title
            /\ new[Len(new)].description = arg.description
            /\ new[Len(new)].acceptanceCriteria = arg.acceptanceCriteria
            /\ new[Len(new)].passes = arg.passes
            /\ arg.id = "" => new[Len(new)].id = ToString(Len(old) + 1)
            /\ arg.id # "" => new[Len(new)].id = arg.id
            /\ lib'.p.Name = lib.p.Name
            /\ lib'.p.Description = lib.p.Description]_vars

C26_Witness ==
    /\ lib.op = "add"
    /\ lib.arg.id = ""
    /\ Len(lib.p.UserStories) = 3
    /\ lib.p.UserStories[3].id = "3"
    /\ lib.p.UserStories[1].id = "2"

\* C27: the ids of a backlog built by AddStory are pairwise distinct
C27_IdsUnique ==
    ~lib.p.nil =>
        \A i, j \in 1..Len(lib.p.UserStories) :
            i # j => lib.p.UserStories[i].id # lib.p.UserStories[j].id

LastSet(log, n) ==
    LET idx == {i \in 1..Len(log) : log[i].loop.Name = n}
    IN  IF idx = {} THEN NoLoop
        ELSE LET m == CHOOSE i \in idx : \A j \in idx : j <= i
             IN  IF log[m].op = "set" THEN log[m].loop ELSE NoLoop

\* C21: with one process the registry is a map from name to record: the file
\* holds for every name the record of the last SetLoop no RemoveLoop followed,
\* GetLoop returns it (nil when there is none), ListAll returns exactly those
\* records, and a call for one name leaves the other names as they were
C21_RegistryIsMap ==
    /\ cli[1].pc = "idle" => \A n \in Names : registry[n] = LastSet(cli[1].log, n)
    /\ cli[1].op = "get" => cli[1].got = LastSet(cli[1].log, cli[1].name)
    /\ cli[1].op = "list" =>
           cli[1].listed = {LastSet(cli[1].log, n) : n \in Names} \ {NoLoop}
    /\ cli[1].pc = "save" => \A n \in Names : registry[n] = LastSet(cli[1].log, n)

C21_Witness ==
    /\ cli[1].op = "get"
    /\ cli[1].name = RunName
    /\ Len(cli[1].log) = 3
    /\ cli[1].log[1].op = "set" /\ cli[1].log[1].loop.Name = RunName
    /\ cli[1].log[1].loop.PID = 7
    /\ cli[1].log[2].op = "set" /\ cli[1].log[2].loop.Name = OtherName
    /\ cli[1].log[3].op = "set" /\ cli[1].log[3].loop.Name = RunName
    /\ cli[1].got.Status = "stopped"
    /\ cli[1].got.PID = 0
    /\ cli[1].got.Started = 0
    /\ ~registry[OtherName].nil

\* C22: two processes write the registry without mutual exclusion: every save
\* leaves the file as the writer's change applied to what that writer had
\* read, whatever was written in between, and every record in the file is one
\* some process stored
C22_LastWriterWins ==
    /\ [][\A p \in Procs :
            Len(cli'[p].log) > Len(cli[p].log) =>
                /\ \A n \in Names \ {cli[p].name} : registry'[n] = cli[p].loaded[n]
                /\ cli[p].op = "set" => registry'[cli[p].name] = cli[p].loop
                /\ cli[p].op = "remove" => registry'[cli[p].name] = NoLoop]_vars
    /\ [](\A n \in Names :
            ~registry[n].nil =>
                \E p \in Procs : \E i \in 1..Len(cli[p].log) :
                    cli[p].log[i] = [op |-> "set", loop |-> registry[n]])

\* both processes have stored a record and the file holds only the second
C22_Witness ==
    /\ cli[1].pc = "idle" /\ cli[2].pc = "idle"
    /\ Len(cli[1].log) = 1 /\ cli[1].log[1].op = "set"
    /\ Len(cli[2].log) = 1 /\ cli[2].log[1].op = "set"
    /\ registry[RunName].nil
    /\ registry[OtherName] = cli[2].log[1].loop

\* C32: an iteration that begins with the context already cancelled leaves the
\* loop as Interrupted without reloading the backlog, writing its
\* iteration-started entry or calling the invoker
C32_CancelCheckedAtTop ==
    [][\A p \in Procs :
         (pc[p] = "top" /\ pc'[p] # "top" /\ ctxDone[p]
          /\ g[p].iteration <= g[p].maxIterations)
         => /\ pc'[p] = "exitLoad"
            /\ hist'[p].terminal = "Interrupted"
            /\ hist'[p].log = hist[p].log
            /\ g'[p].p = g[p].p]_vars

\* C33: iteration k+1 starts only after a pause that followed iteration k,
\* whether the invoker call of iteration k succeeded or failed, and the run
\* pauses neither after its last permitted iteration nor in --once mode
C33_PauseBetweenIterations ==
    /\ [][\A p \in Procs :
            (pc[p] = "top" /\ pc'[p] = "invoke" /\ g[p].iteration > 1)
            => hist[p].pausedAfter = g[p].iteration - 1]_vars
    /\ [][\A p \in Procs :
            (pc[p] # "pause" /\ pc'[p] = "pause")
            => g[p].iteration < g[p].maxIterations /\ ~g[p].once]_vars

\* C34: once the context is cancelled the run starts no agent child: a call
\* of the invoker under a cancelled context fails before the fork
C34_NoChildAfterCancel ==
    [][\A p \in Procs :
         /\ (child[p] # "alive" /\ child'[p] = "alive") => ~ctxDone[p]
         /\ (pc[p] = "invoke" /\ pc'[p] # "invoke" /\ ctxDone[p])
            => /\ child'[p] = "none"
               /\ pc'[p] = "after"
               /\ g'[p].err \in {"claude CLI not found", "context canceled"}]_vars

C34_Witness ==
    /\ pc[1] = "after"
    /\ ctxDone[1]
    /\ g[1].err = "context canceled"
    /\ g[1].iteration = 2
    /\ hist[1].calls = 2
    /\ hist[1].cancelledIn = 0
    /\ child[1] = "none"

\* the backlog file exists and holds no story
EmptyBacklog(file) == file.kind = "json" /\ Len(file.stories) = 0

\* C37: with a backlog file that holds no story a run never ends as Completed
\* and never calls the publisher; without cancellation every iteration up to
\* the maximum calls the invoker once
C37_EmptyBacklogNeverCompletes ==
    /\ [](EmptyBacklog(prdFile) =>
            \A p \in Procs : /\ hist[p].terminal # "Completed"
                             /\ hist[p].pubCalls = 0
                             /\ pc[p] # "publish")
    /\ [][\A p \in Procs :
            (pc[p] = "top" /\ pc'[p] # "top" /\ EmptyBacklog(prdFile))
            => IF g[p].iteration > g[p].maxIterations
               THEN hist'[p].terminal = "IterationLimitReached"
               ELSE /\ pc'[p] = "invoke"
                    /\ hist'[p].log = Append(hist[p].log, <<"started", g[p].iteration>>)]_vars
    /\ [][\A p \in Procs :
            (pc[p] = "invoke" /\ pc'[p] # "invoke")
            => hist'[p].calls = hist[p].calls + 1]_vars
    /\ [][\A p \in Procs :
            (pc[p] = "final" /\ pc'[p] # "final" /\ EmptyBacklog(prdFile))
            => pc'[p] = "returned" /\ g'[p].result = "nil"]_vars

C37_Witness ==
    /\ pc[1] = "returned"
    /\ hist[1].entered
    /\ ~ctxDone[1]
    /\ EmptyBacklog(prdFile)
    /\ g[1].maxIterations = 2
    /\ hist[1].calls = 2
    /\ hist[1].terminal = "IterationLimitReached"
    /\ hist[1].pubCalls = 0

\* C39: a write of the run changes only Status, PID, Started and Stopped of
\* the record of its own session: Name, Path, Project, Feature, Branch and
\* Created stay as they were read, the records of the other sessions stay as
\* they were, and a record that did not exist is created with Name and Path
\* only
C39_RunWritesOwnFields ==
    [][registry' # registry =>
         LET old == registry[RunName]
             new == registry'[RunName]
         IN  /\ \A n \in Names \ {RunName} : registry'[n] = registry[n]
             /\ ~new.nil
             /\ new.Name = RunName
             /\ new.Path = PathOf(RunName)
             /\ IF old.nil
                THEN /\ new.Project = "" /\ new.Feature = "" /\ new.Branch = ""
                     /\ new.Created = 0
                     /\ new.Status = "running"
                ELSE /\ new.Name = old.Name /\ new.Path = old.Path
                     /\ new.Project = old.Project /\ new.Feature = old.Feature
                     /\ new.Branch = old.Branch /\ new.Created = old.Created
             /\ new.Status \in {"running", "stopped"}]_vars

C39_Witness ==
    /\ pc[1] = "returned"
    /\ hist[1].exitWritten
    /\ registry[RunName] =
           Loop(RunName, PathOf(RunName), "proj", "feat", "feature/feat",
                "stopped", 0, 1, registry[RunName].Started, registry[RunName].Stopped)
    /\ registry[RunName].Started > 2
    /\ registry[RunName].Stopped > registry[RunName].Started
    /\ registry[OtherName] = NewRecord(OtherName, 2)

\* C31: a cleanup that found the record of its session with status "running"
\* removes neither the worktree nor the record and does not end in success
C31_CleanupRefusesRunning ==
    [][(cmd.op = "cleanup" /\ RecordRunning(cmd.loop))
         => /\ dirState' = dirState
            /\ registry'[cmd.loop.Name] = registry[cmd.loop.Name]
            /\ cmd'.op = "none" => mon'.last.err # "nil"]_vars

\* the registry shows session n as running under the pid of a process that
\* no longer exists
Crashed(n) ==
    /\ RecordRunning(registry[n])
    /\ registry[n].PID # 0
    /\ ~PidAlive(registry[n].PID)

\* the step ends a command op for session n with success
Succeeds(op, n) ==
    /\ cmd'.op = "none"
    /\ mon'.last # mon.last \/ mon'.cmds # mon.cmds
    /\ mon'.last = [op |-> op, name |-> n, err |-> "nil"]

\* C35: when the registry shows a dead process as running, a stop of the
\* session that succeeds, by the stop command or by the supervisor's Stop,
\* leaves a record the entry guard of a run accepts
C35_StopRecoversCrashedSession ==
    [][\A op \in {"stop", "Stop"} :
         (Crashed(RunName) /\ Succeeds(op, RunName))
         => ~AlreadyRunning(registry'[RunName])]_vars

\* the same for the stop command alone
C35_StopCommandRecovers ==
    [][(Crashed(RunName) /\ Succeeds("stop", RunName))
         => ~AlreadyRunning(registry'[RunName])]_vars

\* C40: the run process Start has spawned is never refused by its entry guard
\* on account of the record Start wrote for it: a guard that refuses has not
\* read a record with the pid of its own process written over the record of
\* a run that had ended (Stopped later than Started)
C40_SpawnedRunNotRefused ==
    [][\A p \in Procs :
         (pc[p] = "guard" /\ pc'[p] = "returned"
          /\ g'[p].result = "loop is already running")
         => ~(/\ registry[RunName].PID = Pid(p)
              /\ registry[RunName].Stopped > registry[RunName].Started)]_vars

\* C36: while a run that was started after the stop of its session is inside
\* its loop and has not been stopped itself, the registry shows it as running
\* under its pid: the exit write of the run that was stopped does not replace
\* its record. Process 2 is the run started after the stop.
C36_NewerRunStaysRunning ==
    (InLoop(2) /\ ~ctxDone[2])
    => /\ RecordRunning(registry[RunName])
       /\ registry[RunName].PID = Pid(2)

\* part_005:133: the loop passes, and so the agent calls, of a run number at
\* most its iteration cap, and none when the cap is 0 or less
CallsWithinCap ==
    hist[1].calls <= IF g[1].maxIterations > 0 THEN g[1].maxIterations ELSE 0

\* C38: provided every agent call returns, a run that has written status
\* running goes on to write its exit record, and it makes at most
\* max-iterations agent calls on the way (none when the cap is 0 or less),
\* whatever the calls return, whatever the agent does to the backlog and
\* whenever the run is interrupted
C38_RunReachesExit ==
    /\ []CallsWithinCap
    /\ [](hist[1].entered => <>hist[1].exitWritten)

\* from the installation of the signal handler on, the run reaches its exit
\* write
HandledRunReachesExit ==
    [](pc[1] = "top" => <>hist[1].exitWritten)

====
